---- MODULE Spec2Model ----
(***************************************************************************)
(* GiftWatch price extraction engine (price_fetcher.py).                   *)
(*                                                                         *)
(* fetch_price(url) is modelled as a state machine: the retry loop around  *)
(* session.get, then the three extraction strategies (JSON-LD, meta tags,  *)
(* visible text) over the parsed document.  The helpers _to_float,         *)
(* _pick_currency and _iter_json are operators computed as the code        *)
(* computes them.                                                          *)
(*                                                                         *)
(* Python values are tagged records:                                       *)
(*   None            [t |-> "none"]                                        *)
(*   str             [t |-> "str",   v |-> <<characters>>]                 *)
(*   float           [t |-> "float", m |-> mantissa, e |-> decimals]       *)
(*                   (the value m / 10^e, trailing zeros removed)          *)
(*   JSON number     [t |-> "num",   v |-> <<characters of str(number)>>]  *)
(*   list            [t |-> "list",  items |-> <<values>>]                 *)
(*   dict            [t |-> "dict",  items |-> << <<key, value>>, ... >>]  *)
(* A character is a one-character string; the non-ASCII signs are the      *)
(* tokens "<euro>" and "<pound>".                                          *)
(***************************************************************************)
EXTENDS Integers, Sequences, FiniteSets, TLC

VARIABLES
    pc,          \* position in fetch_price / in a helper's harness
    attempt,     \* loop variable of the retry loop (line 94)
    last_error,  \* line 92 / 106
    html,        \* the parsed document (soup), None before a successful GET
    tagIdx,      \* index of the next ld+json script tag (loop of line 123)
    metaIdx,     \* index of the next meta candidate (loop of line 158)
    patIdx,      \* index of the next text pattern (loop of line 181)
    result,      \* the returned triple, None while running
    calls,       \* observed external calls: session.get outcomes and time.sleep
    numIn,       \* argument of the helper (_to_float, _pick_currency) in its harness
    numOut       \* its return value

vars == <<pc, attempt, last_error, html, tagIdx, metaIdx, patIdx, result,
          calls, numIn, numOut>>

---------------------------------------------------------------------------
(* Bounds of the model *)

MaxLen == 4

MaxScripts == 2

MaxMetas == 2

MaxWords == 3

---------------------------------------------------------------------------
(* Python values *)

None == [t |-> "none"]

Str(cs) == [t |-> "str", v |-> cs]

Num(cs) == [t |-> "num", v |-> cs]

List(xs) == [t |-> "list", items |-> xs]

Dict(kvs) == [t |-> "dict", items |-> kvs]

Digits == {"0", "1", "2", "3", "4", "5", "6", "7", "8", "9"}

DigitSeq == <<"0", "1", "2", "3", "4", "5", "6", "7", "8", "9">>

DigitVal(c) == (CHOOSE i \in 1..10 : DigitSeq[i] = c) - 1

Whitespace == {" "}

LowerSeq == <<"a", "b", "c", "d", "e", "f", "g", "h", "i", "j", "k", "l", "m",
              "n", "o", "p", "q", "r", "s", "t", "u", "v", "w", "x", "y", "z">>

UpperSeq == <<"A", "B", "C", "D", "E", "F", "G", "H", "I", "J", "K", "L", "M",
              "N", "O", "P", "Q", "R", "S", "T", "U", "V", "W", "X", "Y", "Z">>

\* str.upper() on one character
UpperChar(c) ==
    IF \E i \in 1..26 : LowerSeq[i] = c
    THEN UpperSeq[CHOOSE i \in 1..26 : LowerSeq[i] = c]
    ELSE c

\* str.upper()
Upper(s) == [i \in 1..Len(s) |-> UpperChar(s[i])]

\* str.count(c) for a one-character c
Count(s, c) == Cardinality({i \in 1..Len(s) : s[i] = c})

\* str.rfind(c): 0-based index of the last occurrence, -1 when absent
RFind(s, c) ==
    IF \E i \in 1..Len(s) : s[i] = c
    THEN (CHOOSE i \in 1..Len(s) : s[i] = c /\ \A j \in (i+1)..Len(s) : s[j] # c) - 1
    ELSE -1

\* str.replace(c, "")
Remove(s, c) == SelectSeq(s, LAMBDA x : x # c)

\* str.replace(c, d) for one-character c, d
Replace(s, c, d) == [i \in 1..Len(s) |-> IF s[i] = c THEN d ELSE s[i]]

\* x in s for strings: s contains x as a substring
Contains(s, x) ==
    \E i \in 0..(Len(s) - Len(x)) : \A j \in 1..Len(x) : s[i + j] = x[j]

RECURSIVE LStrip(_)
LStrip(s) ==
    IF s # <<>> /\ Head(s) \in Whitespace THEN LStrip(Tail(s)) ELSE s

RECURSIVE RStrip(_)
RStrip(s) ==
    IF s # <<>> /\ s[Len(s)] \in Whitespace
    THEN RStrip(SubSeq(s, 1, Len(s) - 1))
    ELSE s

\* str.strip()
Strip(s) == RStrip(LStrip(s))

RECURSIVE DigitsVal(_)
DigitsVal(ds) ==
    IF ds = <<>> THEN 0
    ELSE 10 * DigitsVal(SubSeq(ds, 1, Len(ds) - 1)) + DigitVal(ds[Len(ds)])

RECURSIVE Normal(_, _)
Normal(m, e) ==
    IF e > 0 /\ m % 10 = 0 THEN Normal(m \div 10, e - 1)
    ELSE [t |-> "float", m |-> m, e |-> e]

\* float(s) for s over digits, ',' and '.': the ValueError is the result None
PyFloat(s) ==
    IF /\ \A i \in 1..Len(s) : s[i] \in Digits \cup {"."}
       /\ Count(s, ".") <= 1
       /\ \E i \in 1..Len(s) : s[i] \in Digits
    THEN LET ds == Remove(s, ".")
             e  == IF Count(s, ".") = 1 THEN Len(s) - 1 - RFind(s, ".") ELSE 0
         IN  Normal(DigitsVal(ds), e)
    ELSE None

\* re.sub(r"[^\d,\.]", "", s)
KeepNumeric(s) == SelectSeq(s, LAMBDA c : c \in Digits \cup {",", "."})

\* "".join(parts[:-1]) + "." + parts[-1]  with parts = s.split(".")
JoinLastDot(s) ==
    LET k == RFind(s, ".") + 1
    IN  Remove(SubSeq(s, 1, k - 1), ".") \o <<".">> \o SubSeq(s, k + 1, Len(s))

ToFloatDropsDecimalComma(price_str) ==
    IF price_str = <<>> THEN None
    ELSE PyFloat(Remove(KeepNumeric(Strip(price_str)), ","))

\* _to_float
ToFloat(price_str) ==
    IF price_str = <<>> THEN None
    ELSE LET s == KeepNumeric(Strip(price_str))
             t == IF Count(s, ",") = 1 /\ Count(s, ".") >= 1
                  THEN IF RFind(s, ",") > RFind(s, ".")
                       THEN Replace(Remove(s, "."), ",", ".")
                       ELSE Remove(s, ",")
                  ELSE IF Count(s, ",") = 1 /\ Count(s, ".") = 0
                       THEN Replace(s, ",", ".")
                       ELSE IF Count(s, ".") > 1 THEN JoinLastDot(s) ELSE s
         IN  PyFloat(t)

---------------------------------------------------------------------------
(* String literals of the program *)

S_EUR == <<"E", "U", "R">>

S_USD == <<"U", "S", "D">>

S_CHF == <<"C", "H", "F">>

S_GBP == <<"G", "B", "P">>

S_price == <<"p", "r", "i", "c", "e">>

S_lowPrice == <<"l", "o", "w", "P", "r", "i", "c", "e">>

S_priceCurrency == <<"p", "r", "i", "c", "e", "C", "u", "r", "r", "e", "n", "c", "y">>

S_type == <<"@", "t", "y", "p", "e">>

S_Offer == <<"O", "f", "f", "e", "r">>

S_AggregateOffer == <<"A", "g", "g", "r", "e", "g", "a", "t", "e">> \o S_Offer

S_property == <<"p", "r", "o", "p", "e", "r", "t", "y">>

S_name == <<"n", "a", "m", "e">>

S_amount == <<":", "a", "m", "o", "u", "n", "t">>

S_product_price == <<"p", "r", "o", "d", "u", "c", "t", ":">> \o S_price

S_product_price_amount == S_product_price \o S_amount

S_og_price_amount == <<"o", "g", ":">> \o S_price \o S_amount

S_twitter_data1 == <<"t", "w", "i", "t", "t", "e", "r", ":", "d", "a", "t", "a", "1">>

S_json_ld == <<"j", "s", "o", "n", "-", "l", "d", ":">>

S_meta == <<"m", "e", "t", "a", ":">>

S_text == <<"t", "e", "x", "t", ":">>

S_not_found == <<"n", "o", "t", "-", "f", "o", "u", "n", "d">>

S_request_error == <<"r", "e", "q", "u", "e", "s", "t", "-", "e", "r", "r", "o", "r">>

S_None == <<"N", "o", "n", "e">>

\* line 17
MAX_RETRIES == 2

\* line 18
MAX_TEXT_LEN == 200000

---------------------------------------------------------------------------
(* _pick_currency, _iter_json and the Python object protocol they use *)

\* str.lower() on one character
LowerChar(c) ==
    IF \E i \in 1..26 : UpperSeq[i] = c
    THEN LowerSeq[CHOOSE i \in 1..26 : UpperSeq[i] = c]
    ELSE c

\* str.lower()
Lower(s) == [i \in 1..Len(s) |-> LowerChar(s[i])]

\* _pick_currency without line 52 (t = text.upper())
PickCurrencyCaseSensitive(text) ==
    IF text = <<>> THEN None
    ELSE LET t == text
         IN  IF Contains(t, <<"<euro>">>) \/ Contains(t, S_EUR) THEN Str(S_EUR)
             ELSE IF Contains(t, <<"$">>) \/ Contains(t, S_USD) THEN Str(S_USD)
             ELSE IF Contains(t, S_CHF) THEN Str(S_CHF)
             ELSE IF Contains(t, <<"<pound>">>) \/ Contains(t, S_GBP) THEN Str(S_GBP)
             ELSE None

\* _pick_currency
PickCurrency(text) ==
    IF text = <<>> THEN None
    ELSE LET t == Upper(text)
         IN  IF Contains(t, <<"<euro>">>) \/ Contains(t, S_EUR) THEN Str(S_EUR)
             ELSE IF Contains(t, <<"$">>) \/ Contains(t, S_USD) THEN Str(S_USD)
             ELSE IF Contains(t, S_CHF) THEN Str(S_CHF)
             ELSE IF Contains(t, <<"<pound>">>) \/ Contains(t, S_GBP) THEN Str(S_GBP)
             ELSE None

RECURSIVE Flatten(_)
Flatten(ss) == IF ss = <<>> THEN <<>> ELSE Head(ss) \o Flatten(Tail(ss))

RECURSIVE IterJson(_)
\* _iter_json: the dicts of a parsed JSON value, depth first in yield order
IterJson(obj) ==
    IF obj.t = "dict"
    THEN <<obj>> \o Flatten([i \in 1..Len(obj.items) |-> IterJson(obj.items[i][2])])
    ELSE IF obj.t = "list"
    THEN Flatten([i \in 1..Len(obj.items) |-> IterJson(obj.items[i])])
    ELSE <<>>

\* key in obj
HasKey(obj, key) == \E i \in 1..Len(obj.items) : obj.items[i][1] = key

\* obj.get(key)
Get(obj, key) ==
    IF HasKey(obj, key)
    THEN obj.items[CHOOSE i \in 1..Len(obj.items) : obj.items[i][1] = key][2]
    ELSE None

\* bool(v)
Truthy(v) ==
    CASE v.t = "none" -> FALSE
      [] v.t = "str"  -> v.v # <<>>
      [] v.t = "num"  -> \E i \in 1..Len(v.v) : v.v[i] \in Digits \ {"0"}
      [] OTHER        -> v.items # <<>>

\* a or b
PyOr(a, b) == IF Truthy(a) THEN a ELSE b

RECURSIVE Join(_, _)
\* sep.join(parts)
Join(parts, sep) ==
    IF parts = <<>> THEN <<>>
    ELSE IF Len(parts) = 1 THEN parts[1]
    ELSE parts[1] \o sep \o Join(Tail(parts), sep)

RECURSIVE Repr(_)
\* repr(v) of a parsed JSON value
Repr(v) ==
    CASE v.t = "none" -> S_None
      [] v.t = "str"  -> <<"'">> \o v.v \o <<"'">>
      [] v.t = "num"  -> v.v
      [] v.t = "list" ->
            <<"[">> \o Join([i \in 1..Len(v.items) |-> Repr(v.items[i])], <<",", " ">>)
                    \o <<"]">>
      [] OTHER ->
            <<"{">> \o Join([i \in 1..Len(v.items) |->
                                <<"'">> \o v.items[i][1] \o <<"'", ":", " ">>
                                        \o Repr(v.items[i][2])], <<",", " ">>)
                    \o <<"}">>

\* str(v)
PyStr(v) == IF v.t = "str" THEN v.v ELSE Repr(v)

---------------------------------------------------------------------------
(* Strategy 1: JSON-LD *)

Triple(p, cur, source) == [price |-> p, currency |-> cur, source |-> source]

JsonKeysLowFirst == <<S_lowPrice, S_price>>

\* line 139
JsonKeys == <<S_price, S_lowPrice>>

\* line 135
IsOffer(obj) == Get(obj, S_type) \in {Str(S_Offer), Str(S_AggregateOffer)}

\* line 144
OfferCurrency(obj) ==
    PyOr(PyOr(Get(obj, S_priceCurrency), PickCurrency(PyStr(obj))), Str(S_EUR))

ScanKeysStopsAtFirstKey(obj, k) ==
    IF \E j \in k..Len(JsonKeys) : HasKey(obj, JsonKeys[j])
    THEN LET j == CHOOSE j \in k..Len(JsonKeys) :
                      /\ HasKey(obj, JsonKeys[j])
                      /\ \A i \in k..(j - 1) : ~HasKey(obj, JsonKeys[i])
             p == ToFloat(PyStr(Get(obj, JsonKeys[j])))
         IN  IF p = None THEN None
             ELSE Triple(p, OfferCurrency(obj), S_json_ld \o JsonKeys[j])
    ELSE None

RECURSIVE ScanKeys(_, _)
\* lines 139-145: the loop over ("price", "lowPrice") from position k
ScanKeys(obj, k) ==
    IF k > Len(JsonKeys) THEN None
    ELSE IF HasKey(obj, JsonKeys[k])
         THEN LET p == ToFloat(PyStr(Get(obj, JsonKeys[k])))
              IN  IF p = None THEN ScanKeys(obj, k + 1)
                  ELSE Triple(p, OfferCurrency(obj), S_json_ld \o JsonKeys[k])
         ELSE ScanKeys(obj, k + 1)

RECURSIVE ScanObjects(_, _)
\* lines 132-145: the loop over _iter_json(data) from position i
ScanObjects(objs, i) ==
    IF i > Len(objs) THEN None
    ELSE IF ~IsOffer(objs[i]) THEN ScanObjects(objs, i + 1)
    ELSE LET r == ScanKeys(objs[i], 1)
         IN  IF r = None THEN ScanObjects(objs, i + 1) ELSE r

\* lines 124-145: one script tag; None when the tag returns nothing
ScanScript(tag) ==
    IF tag.raw = "empty" THEN None
    ELSE IF tag.raw = "invalid" THEN None
    ELSE ScanObjects(IterJson(tag.data), 1)

---------------------------------------------------------------------------
(* Strategy 2: meta tags *)

meta_candidatesReversed ==
    << <<S_name, S_price>>,
       <<S_name, S_twitter_data1>>,
       <<S_property, S_product_price>>,
       <<S_property, S_og_price_amount>>,
       <<S_property, S_product_price_amount>> >>

\* lines 150-156
meta_candidates ==
    << <<S_property, S_product_price_amount>>,
       <<S_property, S_og_price_amount>>,
       <<S_property, S_product_price>>,
       <<S_name, S_twitter_data1>>,
       <<S_name, S_price>> >>

\* soup.find("meta", attrs={key: val}): the first such tag in document order
FindMeta(metas, key, val) ==
    IF \E i \in 1..Len(metas) : metas[i].key = key /\ metas[i].val = val
    THEN metas[CHOOSE i \in 1..Len(metas) :
                  /\ metas[i].key = key /\ metas[i].val = val
                  /\ \A j \in 1..(i - 1) : ~(metas[j].key = key /\ metas[j].val = val)]
    ELSE None

\* lines 159-165: one candidate; None when it returns nothing
ProbeMeta(metas, cand) ==
    LET m == FindMeta(metas, cand[1], cand[2])
    IN  IF m # None /\ Truthy(m.content)
        THEN LET content == m.content.v
                 p == ToFloat(content)
             IN  IF p # None
                 THEN Triple(p, PyOr(PickCurrency(content), Str(S_EUR)), S_meta \o cand[2])
                 ELSE None
        ELSE None

---------------------------------------------------------------------------
(* Strategy 3: visible text *)

\* lines 174-179; "suffix": amount \s? marker, "prefix": marker \s? amount
\* the list of lines 174-179 with the Dollar pattern moved to the front
patternsDollarFirst ==
    << [kind |-> "prefix", marker |-> <<"$">>,       cur |-> S_USD],
       [kind |-> "suffix", marker |-> <<"<euro>">>,  cur |-> S_EUR],
       [kind |-> "suffix", marker |-> S_CHF,         cur |-> S_CHF],
       [kind |-> "prefix", marker |-> <<"<pound>">>, cur |-> S_GBP] >>

patterns ==
    << [kind |-> "suffix", marker |-> <<"<euro>">>,  cur |-> S_EUR],
       [kind |-> "prefix", marker |-> <<"$">>,       cur |-> S_USD],
       [kind |-> "suffix", marker |-> S_CHF,         cur |-> S_CHF],
       [kind |-> "prefix", marker |-> <<"<pound>">>, cur |-> S_GBP] >>

\* \d at 1-based position p
DigitAt(text, p) == p >= 1 /\ p <= Len(text) /\ text[p] \in Digits

\* \s at position p
SpaceAt(text, p) == p >= 1 /\ p <= Len(text) /\ text[p] \in Whitespace

\* [.,] at position p
SepAt(text, p) == p >= 1 /\ p <= Len(text) /\ text[p] \in {".", ","}

\* ([.,]\d{3}) at position p
GroupAt(text, p) ==
    SepAt(text, p) /\ DigitAt(text, p + 1) /\ DigitAt(text, p + 2) /\ DigitAt(text, p + 3)

\* ([.,]\d{2}) at position p
DecimalsAt(text, p) == SepAt(text, p) /\ DigitAt(text, p + 1) /\ DigitAt(text, p + 2)

RECURSIVE MaxGroups(_, _)
\* the most repetitions ([.,]\d{3})* can take at position p
MaxGroups(text, p) == IF GroupAt(text, p) THEN 1 + MaxGroups(text, p + 4) ELSE 0

\* the marker literal at position p, under re.IGNORECASE
MarkerAt(text, p, marker) ==
    /\ p >= 1
    /\ p + Len(marker) - 1 <= Len(text)
    /\ \A j \in 1..Len(marker) : UpperChar(text[p + j - 1]) = UpperChar(marker[j])

\* \d{1,3}([.,]\d{3})*([.,]\d{2})? at position i: the positions right after the
\* amount, in the order the backtracking matcher tries them (greedy first)
AmountEnds(text, i) ==
    Flatten([dd \in 1..3 |->
        LET d == 4 - dd
        IN  IF \A j \in 0..(d - 1) : DigitAt(text, i + j)
            THEN Flatten([kk \in 1..(MaxGroups(text, i + d) + 1) |->
                    LET k == MaxGroups(text, i + d) + 1 - kk
                        q == i + d + 4 * k
                    IN  IF DecimalsAt(text, q) THEN <<q + 3, q>> ELSE <<q>>])
            ELSE <<>>])

\* the end (exclusive) of the pattern's match starting at i, 0 when none
MatchEnd(text, i, pat) ==
    IF pat.kind = "suffix" /\ ~DigitAt(text, i)
    THEN 0
    ELSE IF pat.kind = "suffix"
    THEN LET ends == AmountEnds(text, i)
             tail(e) == IF SpaceAt(text, e) /\ MarkerAt(text, e + 1, pat.marker)
                        THEN e + 1 + Len(pat.marker)
                        ELSE IF MarkerAt(text, e, pat.marker)
                             THEN e + Len(pat.marker)
                             ELSE 0
         IN  IF \E n \in 1..Len(ends) : tail(ends[n]) # 0
             THEN tail(ends[CHOOSE n \in 1..Len(ends) :
                              /\ tail(ends[n]) # 0
                              /\ \A h \in 1..(n - 1) : tail(ends[h]) = 0])
             ELSE 0
    ELSE IF MarkerAt(text, i, pat.marker)
         THEN LET q  == i + Len(pat.marker)
                  e1 == IF SpaceAt(text, q) THEN AmountEnds(text, q + 1) ELSE <<>>
                  e0 == AmountEnds(text, q)
              IN  IF e1 # <<>> THEN e1[1] ELSE IF e0 # <<>> THEN e0[1] ELSE 0
         ELSE 0

\* re.search(pat, text, flags=re.IGNORECASE): m.group(0) of the leftmost match,
\* None when there is no match
Search(pat, text) ==
    IF \E i \in 1..Len(text) : MatchEnd(text, i, pat) # 0
    THEN LET i == CHOOSE i \in 1..Len(text) :
                      /\ MatchEnd(text, i, pat) # 0
                      /\ \A j \in 1..(i - 1) : MatchEnd(text, j, pat) = 0
         IN  Str(SubSeq(text, i, MatchEnd(text, i, pat) - 1))
    ELSE None

\* lines 171-172
Truncate(text) == IF Len(text) > MAX_TEXT_LEN THEN SubSeq(text, 1, MAX_TEXT_LEN) ELSE text

\* lines 182-186: one pattern; None when it returns nothing
TryPattern(text, pat) ==
    LET m == Search(pat, text)
    IN  IF m # None
        THEN LET p == ToFloat(m.v)
             IN  IF p # None
                 THEN Triple(p, Str(pat.cur), S_text \o Lower(pat.cur))
                 ELSE None
        ELSE None

---------------------------------------------------------------------------
(* The documents a GET may return: script tags of type application/ld+json    *)
(* (raw text empty, not JSON, or the text of a JSON value), meta tags in       *)
(* document order, and the visible text soup.get_text(" ", strip=True).        *)

Script(data) == [raw |-> "json", data |-> data]

EmptyScript == [raw |-> "empty", data |-> None]

InvalidScript == [raw |-> "invalid", data |-> None]

Meta(key, val, content) == [key |-> key, val |-> val, content |-> content]

Page(scripts, metas, text) == [scripts |-> scripts, metas |-> metas, text |-> text]

Obj(type, fields) == Dict(<< <<S_type, Str(type)>> >> \o fields)

S_Product == <<"P", "r", "o", "d", "u", "c", "t">>

S_JPY == <<"J", "P", "Y">>

\* {"@type":"Offer","price":"49.90","priceCurrency":"USD"}
DocOffer ==
    Obj(S_Offer, << <<S_price, Str(<<"4", "9", ".", "9", "0">>)>>,
                    <<S_priceCurrency, Str(S_USD)>> >>)

\* {"@type":"Offer","price":"abc","lowPrice":"10,00"}
DocBadPrice ==
    Obj(S_Offer, << <<S_price, Str(<<"a", "b", "c">>)>>,
                    <<S_lowPrice, Str(<<"1", "0", ",", "0", "0">>)>> >>)

\* {"@type":"AggregateOffer","lowPrice":5,"price":7.5,"priceCurrency":"JPY"}
DocBothKeys ==
    Obj(S_AggregateOffer, << <<S_lowPrice, Num(<<"5">>)>>,
                             <<S_price, Num(<<"7", ".", "5">>)>>,
                             <<S_priceCurrency, Str(S_JPY)>> >>)

\* {"@type":"Product","offers":[{"@type":"Offer","price":null},
\*                              {"@type":"Offer","price":0}]}
DocNested ==
    Obj(S_Product,
        << << <<"o", "f", "f", "e", "r", "s">>,
              List(<< Obj(S_Offer, << <<S_price, None>> >>),
                      Obj(S_Offer, << <<S_price, Num(<<"0">>)>> >>) >>) >> >>)

\* {"@type":"Product","name":"x"}
DocNoOffer == Obj(S_Product, << <<S_name, Str(<<"x">>)>> >>)

\* [{"@type":"Offer","price":"1.234,56"}]
DocList ==
    List(<< Obj(S_Offer,
                << <<S_price, Str(<<"1", ".", "2", "3", "4", ",", "5", "6">>)>> >>) >>)

\* {"@type":"Offer","lowPrice":"8","priceCurrency":"","name":"chf"}
DocTextCurrency ==
    Obj(S_Offer, << <<S_lowPrice, Str(<<"8">>)>>,
                    <<S_priceCurrency, Str(<<>>)>>,
                    <<S_name, Str(<<"g", "b", "p", "/", "c", "h", "f">>)>> >>)

Blocks ==
    { EmptyScript, InvalidScript, Script(DocOffer), Script(DocBadPrice),
      Script(DocBothKeys), Script(DocNested), Script(DocNoOffer), Script(DocList),
      Script(DocTextCurrency) }

MetaTags ==
    { Meta(S_property, S_product_price_amount, Str(<<"a", "b", "c">>)),
      Meta(S_property, S_product_price_amount, Str(<<"1", "2", ",", "5", "0">>)),
      Meta(S_property, S_og_price_amount, Str(<<"$", "9", ".", "9", "9">>)),
      Meta(S_property, S_og_price_amount, Str(<<>>)),
      Meta(S_property, S_product_price, Str(<<"7", " ", "C", "H", "F">>)),
      Meta(S_name, S_twitter_data1, None),
      Meta(S_name, S_price, Str(<<"0">>)),
      Meta(S_name, S_price, Str(<<"5">>)),
      Meta(S_name, <<"d", "e", "s", "c">>, Str(<<"1", "9", " ", "E", "U", "R">>)) }

\* "Preis: 99,00 <euro>"
TextEuro == <<"P", "r", "e", "i", "s", ":", " ", "9", "9", ",", "0", "0", " ", "<euro>">>

Texts ==
    { <<>>,
      TextEuro,
      <<"n", "o", " ", "p", "r", "i", "c", "e">>,
      <<"1", ",", "2", "3", "4", ",", "5", "6", "7", " ", "<euro>", " ", "1", "0", " ", "c", "h", "f">>,
      <<"<pound>", "3", " ", "o", "r", " ", "$", "4", ".", "5", "0">>,
      <<"0", " ", "<euro>">>,
      <<"1", "2", "3", "4", "<euro>">>,
      <<"$", " ", "1", ".", "2", "3", "4", ".", "5", "6", "7", ",", "8", "9">>,
      <<"1", ",", "2", "3", "4", ",", "5", "6", "7", " ", "<euro>", " ", "5", " ", "<euro>", " ",
        "1", "0", " ", "c", "h", "f">>,
      <<"$", "4", " ", "o", "r", " ", "5", " ", "<euro>">> }

RECURSIVE SeqsUpTo(_, _)
SeqsUpTo(A, n) ==
    IF n = 0 THEN {<<>>}
    ELSE LET shorter == SeqsUpTo(A, n - 1)
         IN  shorter \cup {Append(s, c) : s \in shorter, c \in A}

FewScripts == { <<>>, <<InvalidScript>>, <<Script(DocOffer)>> }

FewMetas ==
    { <<>>, << Meta(S_property, S_og_price_amount, Str(<<"1", "2", ",", "5", "0">>)) >> }

FewTexts == { <<>>, TextEuro }

\* a text longer than MAX_TEXT_LEN: the cut of line 172 separates "5" from its
\* euro sign
LongText ==
    <<"$", "4">> \o [i \in 1..(MAX_TEXT_LEN - 3) |-> "x"] \o <<"5", " ", "<euro>">>

Pages ==
    {Page(sc, me, tx) : sc \in SeqsUpTo(Blocks, MaxScripts), me \in FewMetas, tx \in FewTexts}
    \cup
    {Page(sc, me, tx) : sc \in FewScripts, me \in SeqsUpTo(MetaTags, MaxMetas), tx \in FewTexts}
    \cup
    {Page(sc, me, tx) : sc \in FewScripts, me \in FewMetas, tx \in Texts}
    \cup
    {Page(<<>>, <<>>, LongText)}

\* type(e).__name__ of the requests.RequestException raised by a failed attempt
ErrorKinds ==
    { <<"T", "i", "m", "e", "o", "u", "t">>,
      <<"H", "T", "T", "P", "E", "r", "r", "o", "r">> }

---------------------------------------------------------------------------
(* fetch_price *)

StrategyOrderMetaFirst == <<"meta", "jsonld", "text">>

\* lines 120-188: the strategies in the order the function body runs them
StrategyOrder == <<"jsonld", "meta", "text">>

\* the position after the strategy at pc has returned nothing
NextStrategy(at) ==
    LET n == CHOOSE n \in 1..Len(StrategyOrder) : StrategyOrder[n] = at
    IN  IF n < Len(StrategyOrder) THEN StrategyOrder[n + 1] ELSE "notfound"

Init ==
    /\ pc = "loop"
    /\ attempt = 0
    /\ last_error = None
    /\ html = None
    /\ tagIdx = 0
    /\ metaIdx = 0
    /\ patIdx = 0
    /\ result = None
    /\ calls = <<>>
    /\ numIn = <<>>
    /\ numOut = None

\* line 94: the for statement takes the next attempt; lines 111-112 when the
\* range is exhausted
RetryLoop ==
    /\ pc = "loop"
    /\ IF attempt + 1 > MAX_RETRIES
       THEN /\ result' = Triple(None, None, S_request_error)
            /\ pc' = "done"
            /\ UNCHANGED attempt
       ELSE /\ attempt' = attempt + 1
            /\ pc' = "get"
            /\ UNCHANGED result
    /\ UNCHANGED <<last_error, html, tagIdx, metaIdx, patIdx, calls, numIn, numOut>>

\* lines 96-104: the GET succeeds and the document is parsed (lines 115-118)
GetOk ==
    /\ pc = "get"
    /\ \E page \in Pages : html' = page
    /\ calls' = Append(calls, "get:ok")
    /\ tagIdx' = 1
    /\ metaIdx' = 1
    /\ patIdx' = 1
    /\ pc' = StrategyOrder[1]
    /\ UNCHANGED <<attempt, last_error, result, numIn, numOut>>

\* GetFail with the budget test written attempt > MAX_RETRIES
GetFailOffByOne ==
    /\ pc = "get"
    /\ \E kind \in ErrorKinds :
          /\ last_error' = Str(kind)
          /\ IF attempt > MAX_RETRIES
             THEN /\ result' = Triple(None, None, S_request_error \o <<":">> \o kind)
                  /\ pc' = "done"
             ELSE /\ pc' = "sleep"
                  /\ UNCHANGED result
    /\ calls' = Append(calls, "get:fail")
    /\ UNCHANGED <<attempt, html, tagIdx, metaIdx, patIdx, numIn, numOut>>

\* lines 105-110: the GET or raise_for_status raises a RequestException
GetFail ==
    /\ pc = "get"
    /\ \E kind \in ErrorKinds :
          /\ last_error' = Str(kind)
          /\ IF attempt >= MAX_RETRIES
             THEN /\ result' = Triple(None, None, S_request_error \o <<":">> \o kind)
                  /\ pc' = "done"
             ELSE /\ pc' = "sleep"
                  /\ UNCHANGED result
    /\ calls' = Append(calls, "get:fail")
    /\ UNCHANGED <<attempt, html, tagIdx, metaIdx, patIdx, numIn, numOut>>

\* line 110
Sleep ==
    /\ pc = "sleep"
    /\ calls' = Append(calls, "sleep")
    /\ pc' = "loop"
    /\ UNCHANGED <<attempt, last_error, html, tagIdx, metaIdx, patIdx, result,
                   numIn, numOut>>

\* lines 123-145: one iteration of the loop over the script tags
JsonLdStep ==
    /\ pc = "jsonld"
    /\ IF tagIdx > Len(html.scripts)
       THEN /\ pc' = NextStrategy("jsonld")
            /\ UNCHANGED <<tagIdx, result>>
       ELSE LET r == ScanScript(html.scripts[tagIdx])
            IN  IF r # None
                THEN /\ result' = r
                     /\ pc' = "done"
                     /\ UNCHANGED tagIdx
                ELSE /\ tagIdx' = tagIdx + 1
                     /\ UNCHANGED <<pc, result>>
    /\ UNCHANGED <<attempt, last_error, html, metaIdx, patIdx, calls, numIn, numOut>>

\* lines 158-165: one iteration of the loop over meta_candidates
MetaStep ==
    /\ pc = "meta"
    /\ IF metaIdx > Len(meta_candidates)
       THEN /\ pc' = NextStrategy("meta")
            /\ UNCHANGED <<metaIdx, result>>
       ELSE LET r == ProbeMeta(html.metas, meta_candidates[metaIdx])
            IN  IF r # None
                THEN /\ result' = r
                     /\ pc' = "done"
                     /\ UNCHANGED metaIdx
                ELSE /\ metaIdx' = metaIdx + 1
                     /\ UNCHANGED <<pc, result>>
    /\ UNCHANGED <<attempt, last_error, html, tagIdx, patIdx, calls, numIn, numOut>>

\* lines 170-186: one iteration of the loop over patterns
TextStep ==
    /\ pc = "text"
    /\ IF patIdx > Len(patterns)
       THEN /\ pc' = NextStrategy("text")
            /\ UNCHANGED <<patIdx, result>>
       ELSE LET r == TryPattern(Truncate(html.text), patterns[patIdx])
            IN  IF r # None
                THEN /\ result' = r
                     /\ pc' = "done"
                     /\ UNCHANGED patIdx
                ELSE /\ patIdx' = patIdx + 1
                     /\ UNCHANGED <<pc, result>>
    /\ UNCHANGED <<attempt, last_error, html, tagIdx, metaIdx, calls, numIn, numOut>>

\* line 188
NotFound ==
    /\ pc = "notfound"
    /\ result' = Triple(None, None, S_not_found)
    /\ pc' = "done"
    /\ UNCHANGED <<attempt, last_error, html, tagIdx, metaIdx, patIdx, calls,
                   numIn, numOut>>

Next ==
    \/ RetryLoop
    \/ GetOk
    \/ GetFail
    \/ Sleep
    \/ JsonLdStep
    \/ MetaStep
    \/ TextStep
    \/ NotFound

Spec == Init /\ [][Next]_vars

---------------------------------------------------------------------------
(* Vocabulary of the properties *)

Done == pc = "done"

Returned == pc = "done" /\ html # None

HasPrefix(s, p) == Len(s) >= Len(p) /\ SubSeq(s, 1, Len(p)) = p

RECURSIVE DictsIn(_)
\* every JSON object nested anywhere in v
DictsIn(v) ==
    IF v.t = "dict"
    THEN {v} \cup UNION {DictsIn(v.items[i][2]) : i \in 1..Len(v.items)}
    ELSE IF v.t = "list"
    THEN UNION {DictsIn(v.items[i]) : i \in 1..Len(v.items)}
    ELSE {}

\* the Offer / AggregateOffer objects of the page's parseable script blocks
OffersOf(page) ==
    UNION { {o \in DictsIn(page.scripts[i].data) :
                 Get(o, S_type) = Str(S_Offer) \/ Get(o, S_type) = Str(S_AggregateOffer)}
            : i \in {j \in 1..Len(page.scripts) : page.scripts[j].raw = "json"} }

\* the <<price, key>> pairs the structured data of the page can yield
JsonPrices(page) ==
    { <<ToFloat(PyStr(Get(o, k))), k>> : <<o, k>> \in
        { ok \in OffersOf(page) \X {S_price, S_lowPrice} :
              HasKey(ok[1], ok[2]) /\ ToFloat(PyStr(Get(ok[1], ok[2]))) # None } }

JsonUsable(page) == JsonPrices(page) # {}

\* the five probed pairs in the documented order
ProbeOrder ==
    << <<S_property, S_product_price_amount>>,
       <<S_property, S_og_price_amount>>,
       <<S_property, S_product_price>>,
       <<S_name, S_twitter_data1>>,
       <<S_name, S_price>> >>

\* i is the first tag of the document that carries pair n of ProbeOrder
FirstTagOf(page, n, i) ==
    /\ page.metas[i].key = ProbeOrder[n][1]
    /\ page.metas[i].val = ProbeOrder[n][2]
    /\ \A j \in 1..(i - 1) : ~(/\ page.metas[j].key = ProbeOrder[n][1]
                               /\ page.metas[j].val = ProbeOrder[n][2])

\* that tag exists and has a non-empty content
MetaPresent(page, n) ==
    \E i \in 1..Len(page.metas) :
        /\ FirstTagOf(page, n, i)
        /\ page.metas[i].content # None
        /\ page.metas[i].content.v # <<>>

\* that content
MetaContent(page, n) ==
    page.metas[CHOOSE i \in 1..Len(page.metas) : FirstTagOf(page, n, i)].content.v

MetaUsableAt(page, n) == MetaPresent(page, n) /\ ToFloat(MetaContent(page, n)) # None

MetaUsable(page) == \E n \in 1..Len(ProbeOrder) : MetaUsableAt(page, n)

Gets == {i \in 1..Len(calls) : calls[i] \in {"get:ok", "get:fail"}}

Sleeps == {i \in 1..Len(calls) : calls[i] = "sleep"}

---------------------------------------------------------------------------
(* C1: the strategies run in the order json-ld, meta, text and the first one   *)
(* that yields a price decides: with a usable structured-data price the        *)
(* returned price and source are structured-data ones, a meta:* result is      *)
(* returned only when no Offer yields a price, a text:* result only when       *)
(* neither structured data nor a meta tag yields one.                          *)
C1_StrategyPriority ==
    Returned =>
        /\ JsonUsable(html) =>
              \E pk \in JsonPrices(html) :
                  result.price = pk[1] /\ result.source = S_json_ld \o pk[2]
        /\ HasPrefix(result.source, S_meta) => ~JsonUsable(html) /\ MetaUsable(html)
        /\ HasPrefix(result.source, S_text) => ~JsonUsable(html) /\ ~MetaUsable(html)
        /\ (~JsonUsable(html) /\ MetaUsable(html)) => HasPrefix(result.source, S_meta)

\* a page with a usable Offer price and a different usable meta price has
\* returned the Offer's
C1_Witness ==
    /\ Returned
    /\ JsonUsable(html)
    /\ \E n \in 1..Len(ProbeOrder) :
          /\ MetaUsableAt(html, n)
          /\ \A pk \in JsonPrices(html) : pk[1] # ToFloat(MetaContent(html, n))
    /\ HasPrefix(result.source, S_json_ld)

---------------------------------------------------------------------------
(* C2: one call issues at most MAX_RETRIES (2) GETs and at most one sleep; a   *)
(* sleep comes only directly after a failed GET and is followed by another     *)
(* GET, nothing follows a successful GET, and the retry loop is never stuck    *)
(* and never runs past its budget: it ends in a result or in the extraction.   *)
C2_RetryBudget ==
    /\ Cardinality(Gets) <= 2
    /\ Cardinality(Gets) <= MAX_RETRIES
    /\ Cardinality(Sleeps) <= 1
    /\ \A i \in Sleeps :
          /\ i > 1
          /\ calls[i - 1] = "get:fail"
          /\ Done => (i < Len(calls) /\ (i + 1) \in Gets)
    /\ \A i \in 1..Len(calls) : calls[i] = "get:ok" => i = Len(calls)
    /\ attempt <= MAX_RETRIES
    /\ Done => result # None
    /\ pc \in {"loop", "get", "sleep"} => ENABLED (RetryLoop \/ GetOk \/ GetFail \/ Sleep)

\* a call that failed once, slept once and then succeeded
C2_Witness ==
    /\ Done
    /\ calls = <<"get:fail", "sleep", "get:ok">>

---------------------------------------------------------------------------
(* The extraction of a document, for C3 *)

RECURSIVE FirstResult(_)
\* the first entry of rs that is not None, None when there is none
FirstResult(rs) ==
    IF rs = <<>> THEN None
    ELSE IF Head(rs) # None THEN Head(rs) ELSE FirstResult(Tail(rs))

\* what lines 120-188 return for a document
Extraction(page) ==
    LET r == FirstResult(
                 [i \in 1..Len(page.scripts) |-> ScanScript(page.scripts[i])]
                 \o [n \in 1..Len(meta_candidates) |-> ProbeMeta(page.metas, meta_candidates[n])]
                 \o [n \in 1..Len(patterns) |-> TryPattern(Truncate(page.text), patterns[n])])
    IN  IF r # None THEN r ELSE Triple(None, None, S_not_found)

(* C3: after a successful GET nothing more is fetched and the result is the    *)
(* extraction over that document, whatever failed before; when every attempt   *)
(* of the budget fails the result is (None, None, "request-error:<K>") with K  *)
(* the class name of the last failure, and no strategy has run.                *)
C3_RetryOutcome ==
    Done =>
        IF \E i \in 1..Len(calls) : calls[i] = "get:ok"
        THEN /\ calls[Len(calls)] = "get:ok"
             /\ Cardinality({i \in 1..Len(calls) : calls[i] = "get:ok"}) = 1
             /\ html # None
             /\ result = Extraction(html)
             /\ ~HasPrefix(result.source, S_request_error)
        ELSE /\ Cardinality(Gets) = MAX_RETRIES
             /\ calls[Len(calls)] = "get:fail"
             /\ last_error # None
             /\ last_error.v \in ErrorKinds
             /\ result = Triple(None, None, S_request_error \o <<":">> \o last_error.v)
             /\ html = None
             /\ tagIdx = 0 /\ metaIdx = 0 /\ patIdx = 0

\* a transient failure followed by a success that yields a price
C3_Witness ==
    /\ Done
    /\ calls = <<"get:fail", "sleep", "get:ok">>
    /\ last_error # None
    /\ result.price # None

---------------------------------------------------------------------------
(* The documented source tags, for C4 *)
SourceTags ==
    {S_json_ld \o S_price, S_json_ld \o S_lowPrice}
    \cup {S_meta \o S_product_price_amount, S_meta \o S_og_price_amount,
          S_meta \o S_product_price, S_meta \o S_twitter_data1, S_meta \o S_price}
    \cup {S_text \o <<"e", "u", "r">>, S_text \o <<"u", "s", "d">>,
          S_text \o <<"c", "h", "f">>, S_text \o <<"g", "b", "p">>}
    \cup {S_not_found}
    \cup {S_request_error \o <<":">> \o kind : kind \in ErrorKinds}

(* C4: every call ends with a well-formed triple: the source is one of the     *)
(* documented tags (never the bare "request-error"), and price is None exactly *)
(* when currency is None, exactly when the source is "not-found" or            *)
(* "request-error:<kind>".                                                     *)
C4_WellFormedResult ==
    Done =>
        /\ DOMAIN result = {"price", "currency", "source"}
        /\ result.source # <<>>
        /\ result.source # S_request_error
        /\ result.source \in SourceTags
        /\ result.price = None \/ result.price.t = "float"
        /\ (result.price = None) <=> (result.currency = None)
        /\ (result.price = None) <=>
              (\/ result.source = S_not_found
               \/ HasPrefix(result.source, S_request_error \o <<":">>))

\* a page with a malformed script block and no price signal ends as not-found
C4_Witness ==
    /\ Returned
    /\ \E i \in 1..Len(html.scripts) : html.scripts[i].raw = "invalid"
    /\ result = Triple(None, None, S_not_found)

---------------------------------------------------------------------------
(* The closed currency set, for C6 *)
CurrencyCodes == {Str(S_EUR), Str(S_USD), Str(S_CHF), Str(S_GBP)}

(* C6: a returned currency is None or one of EUR, USD, CHF, GBP; a             *)
(* priceCurrency outside that set is not carried through to the caller.        *)
C6_ClosedCurrencySet ==
    Done => (result.currency = None \/ result.currency \in CurrencyCodes)

---------------------------------------------------------------------------
(* The candidates of a document: C8 and C9 speak of the candidates of a document in the order lines 123-186  *)
(* visit them; each is [price, source, kind, at, first].                       *)

Cand(p, source, kind, at, first) ==
    [price |-> p, source |-> source, kind |-> kind, at |-> at, first |-> first]

\* the candidates of one Offer object: a key it has, in the order price, lowPrice
ObjCandidates(o) ==
    Flatten([k \in 1..2 |->
        LET key == IF k = 1 THEN S_price ELSE S_lowPrice
        IN  IF HasKey(o, key)
            THEN << Cand(ToFloat(PyStr(Get(o, key))), S_json_ld \o key, "field", o,
                         k = 1 \/ ~HasKey(o, S_price)) >>
            ELSE <<>>])

\* the candidates of one script block
BlockCandidates(b) ==
    IF b.raw # "json" THEN << Cand(None, <<>>, "block", b, TRUE) >>
    ELSE LET objs == IterJson(b.data)
         IN  Flatten([i \in 1..Len(objs) |->
                 IF Get(objs[i], S_type) \in {Str(S_Offer), Str(S_AggregateOffer)}
                 THEN ObjCandidates(objs[i])
                 ELSE <<>>])

MetaCandidatesOf(page) ==
    Flatten([n \in 1..Len(ProbeOrder) |->
        IF MetaPresent(page, n)
        THEN << Cand(ToFloat(MetaContent(page, n)), S_meta \o ProbeOrder[n][2],
                     "meta", n, TRUE) >>
        ELSE <<>>])

TextCandidatesOf(page) ==
    Flatten([n \in 1..Len(patterns) |->
        LET m == Search(patterns[n], Truncate(page.text))
        IN  IF m # None
            THEN << Cand(ToFloat(m.v), S_text \o Lower(patterns[n].cur), "text", n, TRUE) >>
            ELSE <<>>])

JsonCandidatesOf(page) ==
    Flatten([i \in 1..Len(page.scripts) |-> BlockCandidates(page.scripts[i])])

Candidates(page) ==
    JsonCandidatesOf(page) \o MetaCandidatesOf(page) \o TextCandidatesOf(page)

Usable(cs) == {i \in 1..Len(cs) : cs[i].price # None}

FirstUsable(cs) ==
    CHOOSE i \in 1..Len(cs) :
        cs[i].price # None /\ \A j \in 1..(i - 1) : cs[j].price = None

\* the Offer object whose field the JSON-LD strategy returned
Producer(page) == JsonCandidatesOf(page)[FirstUsable(JsonCandidatesOf(page))].at

\* the normalised value of field key of object o
Field(o, key) == ToFloat(PyStr(Get(o, key)))

---------------------------------------------------------------------------
(* C8 as stated: an Offer object that has a "price" key never produces a       *)
(* result tagged json-ld:lowPrice.                                             *)
C8_LowPriceOnlyWithoutPriceKey ==
    (Returned /\ result.source = S_json_ld \o S_lowPrice) =>
        ~HasKey(Producer(html), S_price)

PriceDecides(o, r) ==
    IF HasKey(o, S_price) /\ Field(o, S_price) # None
    THEN r.source = S_json_ld \o S_price /\ r.price = Field(o, S_price)
    ELSE /\ r.source = S_json_ld \o S_lowPrice
         /\ HasKey(o, S_lowPrice)
         /\ r.price = Field(o, S_lowPrice)

(* C8 as amended: lowPrice decides only when the object has no "price" key or  *)
(* its "price" value does not normalise; an object whose "price" normalises     *)
(* yields json-ld:price with that value.                                        *)
C8_PricePreferred ==
    (Returned /\ HasPrefix(result.source, S_json_ld)) => PriceDecides(Producer(html), result)

BothKeysUsable(o, r) ==
    /\ HasKey(o, S_price) /\ HasKey(o, S_lowPrice)
    /\ Field(o, S_lowPrice) # None
    /\ Field(o, S_lowPrice) # r.price

\* an object with both keys, both normalising, has produced json-ld:price
C8_Witness ==
    /\ Returned
    /\ result.source = S_json_ld \o S_price
    /\ BothKeysUsable(Producer(html), result)

---------------------------------------------------------------------------
(* C9: a failing candidate (an empty or non-JSON script block, an Offer field  *)
(* a meta content or a text match that does not normalise) never ends the      *)
(* extraction: the result is the first usable candidate of the document, and   *)
(* it is not-found only when the document has no usable candidate.             *)
C9_FailuresSkipped ==
    Returned =>
        LET cs == Candidates(html)
        IN  IF Usable(cs) # {}
            THEN /\ result.price = cs[FirstUsable(cs)].price
                 /\ result.source = cs[FirstUsable(cs)].source
            ELSE result = Triple(None, None, S_not_found)

\* failing candidates of at least two kinds came before the one returned
C9_Witness ==
    /\ Returned
    /\ result.price # None
    /\ LET cs == Candidates(html)
       IN  \E i, j \in 1..(FirstUsable(cs) - 1) :
               /\ cs[i].price = None /\ cs[i].kind = "block"
               /\ cs[j].price = None /\ cs[j].kind = "meta"

---------------------------------------------------------------------------
(* The first pair with a non-empty content, and with a usable one, for C10 *)
FirstPresent(page) ==
    CHOOSE n \in 1..Len(ProbeOrder) :
        MetaPresent(page, n) /\ \A h \in 1..(n - 1) : ~MetaPresent(page, h)

(* C10 as stated: the meta result comes from the first pair, in the order of   *)
(* meta_candidates, whose tag has a non-empty content: price is that content   *)
(* normalised, currency its marker or EUR, source meta:<value>.                *)
C10_FirstNonEmptyMeta ==
    (Returned /\ HasPrefix(result.source, S_meta)) =>
        LET n == FirstPresent(html)
            marker == PickCurrency(MetaContent(html, n))
        IN  /\ result.source = S_meta \o ProbeOrder[n][2]
            /\ result.price = ToFloat(MetaContent(html, n))
            /\ result.currency = IF marker # None THEN marker ELSE Str(S_EUR)

FirstMetaUsable(page) ==
    CHOOSE n \in 1..Len(ProbeOrder) :
        MetaUsableAt(page, n) /\ \A h \in 1..(n - 1) : ~MetaUsableAt(page, h)

(* C10 as amended: the meta result comes from the first pair, in the order of  *)
(* the list and not of the document, whose tag (the first such tag of the      *)
(* document) has a non-empty content that normalises: price is that content    *)
(* normalised, currency its marker or EUR, source meta:<value>.                *)
C10_FirstUsableMeta ==
    (Returned /\ ~JsonUsable(html)) =>
        IF MetaUsable(html)
        THEN LET n == FirstMetaUsable(html)
                 content == MetaContent(html, n)
                 marker == PickCurrency(content)
             IN  result = Triple(ToFloat(content),
                                 IF marker # None THEN marker ELSE Str(S_EUR),
                                 S_meta \o ProbeOrder[n][2])
        ELSE ~HasPrefix(result.source, S_meta)

\* two usable tags whose document order is the reverse of the list order: the
\* result is the one that comes first in the list
C10_Witness ==
    /\ Returned
    /\ HasPrefix(result.source, S_meta)
    /\ Len(html.metas) = 2
    /\ \E a, b \in 1..Len(ProbeOrder) :
          /\ a < b
          /\ html.metas[1].val = ProbeOrder[b][2]
          /\ html.metas[2].val = ProbeOrder[a][2]
          /\ MetaUsableAt(html, a) /\ MetaUsableAt(html, b)
          /\ result.source = S_meta \o ProbeOrder[a][2]
          /\ result.price # ToFloat(MetaContent(html, b))

---------------------------------------------------------------------------
(* The normalisation harness: _to_float applied to one argument *)

NumAlphabet == {"0", "5", ",", ".", "-", "a"}

RECURSIVE StringsUpTo(_, _)
StringsUpTo(A, n) ==
    IF n = 0 THEN {<<>>}
    ELSE LET shorter == StringsUpTo(A, n - 1)
         IN  shorter \cup {Append(s, c) : s \in shorter, c \in A}

NumExamples ==
    { <<"1", ".", "2", "3", "4", ",", "5", "6">>,
      <<"1", ",", "2", "3", "4", ".", "5", "6">>,
      <<"7", "9", ",", "9", "9">>,
      <<"a", "b", "c">>,
      <<"-", "5", ",", "0", "0">>,
      <<"1", ".", "2", "3", "4", ".", "5", "6", "7">>,
      <<" ", "4", "9", ".", "9", "0", " ", "<euro>">> }

NumInputs == StringsUpTo(NumAlphabet, MaxLen) \cup NumExamples

InitNum ==
    /\ pc = "num"
    /\ numIn \in NumInputs
    /\ numOut = None
    /\ attempt = 0
    /\ last_error = None
    /\ html = None
    /\ tagIdx = 0
    /\ metaIdx = 0
    /\ patIdx = 0
    /\ result = None
    /\ calls = <<>>

Normalise ==
    /\ pc = "num"
    /\ numOut' = ToFloat(numIn)
    /\ pc' = "numdone"
    /\ UNCHANGED <<attempt, last_error, html, tagIdx, metaIdx, patIdx, result,
                   calls, numIn>>

NextNum == Normalise

SpecNum == InitNum /\ [][NextNum]_vars

---------------------------------------------------------------------------
(* C5: _to_float returns None or a number > 0; an input with a minus sign or   *)
(* of value zero gives None.                                                   *)
C5_NeverNonPositive ==
    pc = "numdone" =>
        /\ numOut = None \/ numOut.m > 0
        /\ Count(numIn, "-") > 0 => numOut = None

---------------------------------------------------------------------------
(* The separator rules computed by position, for C7 *)

Max(S) == CHOOSE x \in S : \A y \in S : y <= x

RECURSIVE Pow10(_)
Pow10(n) == IF n = 0 THEN 1 ELSE 10 * Pow10(n - 1)

RECURSIVE Pick(_, _, _)
\* the characters of s at the positions of K from position i on, in order
Pick(s, K, i) ==
    IF i > Len(s) THEN <<>>
    ELSE (IF i \in K THEN <<s[i]>> ELSE <<>>) \o Pick(s, K, i + 1)

\* the value of digits [. digits] with at least one digit, None for anything else
Decimal(t, point) ==
    LET whole == SubSeq(t, 1, IF point = 0 THEN Len(t) ELSE point - 1)
        frac  == IF point = 0 THEN <<>> ELSE SubSeq(t, point + 1, Len(t))
    IN  IF /\ \A i \in 1..Len(whole) : whole[i] \in Digits
           /\ \A i \in 1..Len(frac) : frac[i] \in Digits
           /\ Len(whole) + Len(frac) > 0
        THEN Normal(DigitsVal(whole) * Pow10(Len(frac)) + DigitsVal(frac), Len(frac))
        ELSE None

\* the number the rules give for an input
ByTheRules(x) ==
    LET s      == Pick(x, {i \in 1..Len(x) : x[i] \in Digits \cup {",", "."}}, 1)
        commas == {i \in 1..Len(s) : s[i] = ","}
        dots   == {i \in 1..Len(s) : s[i] = "."}
        \* the positions kept and, among them, the position of the decimal point
        keep   == IF Cardinality(commas) = 1 /\ dots # {}
                  THEN IF Max(commas) > Max(dots)
                       THEN (1..Len(s)) \ dots
                       ELSE (1..Len(s)) \ commas
                  ELSE IF Cardinality(commas) = 1 THEN 1..Len(s)
                  ELSE IF Cardinality(dots) > 1
                       THEN (1..Len(s)) \ (dots \ {Max(dots)})
                       ELSE 1..Len(s)
        point  == IF Cardinality(commas) = 1 /\ dots # {}
                  THEN IF Max(commas) > Max(dots) THEN Max(commas) ELSE Max(dots)
                  ELSE IF Cardinality(commas) = 1 THEN Max(commas)
                  ELSE IF dots # {} THEN Max(dots) ELSE 0
        \* separators that survive besides the decimal point make the text unparseable
        stray  == {i \in keep : s[i] \in {",", "."} /\ i # point}
    IN  IF stray # {} THEN None
        ELSE Decimal(Pick(s, keep, 1), Cardinality({i \in keep : i < point}) + (IF point = 0 THEN 0 ELSE 1))

Float(m, e) == [t |-> "float", m |-> m, e |-> e]

(* C7: _to_float follows the separator rules.  Over the digits, commas and     *)
(* dots of the input: with one comma and at least one dot the rightmost        *)
(* separator is the decimal point and the other separator is removed; with one *)
(* comma and no dot the comma is the decimal point; otherwise with more than   *)
(* one dot the last dot is the decimal point and the other dots are removed;   *)
(* whatever then is not a decimal number gives None.                           *)
C7_SeparatorRules ==
    pc = "numdone" =>
        /\ numOut = ByTheRules(numIn)
        /\ numIn = <<"1", ".", "2", "3", "4", ",", "5", "6">> => numOut = Float(123456, 2)
        /\ numIn = <<"1", ",", "2", "3", "4", ".", "5", "6">> => numOut = Float(123456, 2)
        /\ numIn = <<"7", "9", ",", "9", "9">> => numOut = Float(7999, 2)
        /\ numIn = <<"1", ".", "2", "3", "4", ".", "5", "6", "7">> => numOut = Float(1234567, 3)
        /\ numIn = <<"a", "b", "c">> => numOut = None

\* a decimal comma after a thousands dot has been read as 1234.56
C7_Witness ==
    /\ pc = "numdone"
    /\ numIn = <<"1", ".", "2", "3", "4", ",", "5", "6">>
    /\ numOut = Float(123456, 2)

---------------------------------------------------------------------------
(* The currency harness: _pick_currency applied to one text, next to the     *)
(* runs of fetch_price                                                         *)

CurWords ==
    { <<"<euro>">>, <<"$">>, <<"<pound>">>,
      <<"e", "u", "r">>, <<"U", "S", "D">>, <<"C", "h", "f">>, <<"g", "b", "p">>,
      <<"e">>, <<"u">>, <<"R">>, <<"x">> }

RECURSIVE WordsUpTo(_, _)
\* the texts made of at most n words of W
WordsUpTo(W, n) ==
    IF n = 0 THEN {<<>>}
    ELSE LET shorter == WordsUpTo(W, n - 1)
         IN  shorter \cup {s \o w : s \in shorter, w \in W}

CurInputs == WordsUpTo(CurWords, MaxWords)

InitCur ==
    /\ pc = "cur"
    /\ numIn \in CurInputs
    /\ numOut = None
    /\ attempt = 0
    /\ last_error = None
    /\ html = None
    /\ tagIdx = 0
    /\ metaIdx = 0
    /\ patIdx = 0
    /\ result = None
    /\ calls = <<>>

Scan ==
    /\ pc = "cur"
    /\ numOut' = PickCurrency(numIn)
    /\ pc' = "curdone"
    /\ UNCHANGED <<attempt, last_error, html, tagIdx, metaIdx, patIdx, result,
                   calls, numIn>>

NextCur == Next \/ Scan

SpecCur == (Init \/ InitCur) /\ [][NextCur]_vars

\* the marker occurs somewhere in the text, letters compared without case
Occurs(text, marker) ==
    \E i \in 0..(Len(text) - Len(marker)) :
        \A j \in 1..Len(marker) : UpperChar(text[i + j]) = UpperChar(marker[j])

\* the currencies in the documented order, each with its markers
MarkerOrder ==
    << [cur |-> S_EUR, markers |-> {<<"<euro>">>, S_EUR}],
       [cur |-> S_USD, markers |-> {<<"$">>, S_USD}],
       [cur |-> S_CHF, markers |-> {S_CHF}],
       [cur |-> S_GBP, markers |-> {<<"<pound>">>, S_GBP}] >>

Marked(text, n) == \E m \in MarkerOrder[n].markers : Occurs(text, m)

\* the first currency of MarkerOrder with a marker in the text, else None
Scanned(text) ==
    IF \E n \in 1..4 : Marked(text, n)
    THEN Str(MarkerOrder[CHOOSE n \in 1..4 :
                 Marked(text, n) /\ \A h \in 1..(n - 1) : ~Marked(text, h)].cur)
    ELSE None

\* priceCurrency of the object, else the scan of str(object), else EUR
Resolved(o) ==
    IF Truthy(Get(o, S_priceCurrency)) THEN Get(o, S_priceCurrency)
    ELSE IF Scanned(PyStr(o)) # None THEN Scanned(PyStr(o))
    ELSE Str(S_EUR)

(* C11: a json-ld result carries the producing object's own priceCurrency when *)
(* it has one, otherwise the currency scanned from str(object), otherwise EUR; *)
(* _pick_currency returns the first of EUR, USD, CHF, GBP (in that order) with *)
(* a marker anywhere in the text, letters compared without case, wherever the  *)
(* markers stand, and None for a text without marker or an empty text.         *)
C11_CurrencyChain ==
    /\ (Returned /\ HasPrefix(result.source, S_json_ld)) =>
           result.currency = Resolved(Producer(html))
    /\ pc = "curdone" => numOut = Scanned(numIn)

\* a json-ld result whose object has an empty priceCurrency and the lower-case
\* markers "gbp" before "chf" in its text: the scan has decided for CHF
C11_Witness ==
    /\ Returned /\ HasPrefix(result.source, S_json_ld)
    /\ Producer(html) = DocTextCurrency
    /\ HasKey(DocTextCurrency, S_priceCurrency)
    /\ ~Truthy(Get(DocTextCurrency, S_priceCurrency))
    /\ Contains(PyStr(DocTextCurrency), <<"g", "b", "p", "/", "c", "h", "f">>)
    /\ result.currency = Str(S_CHF)

---------------------------------------------------------------------------
(* The visible-text strategy, as documented *)

\* the four patterns in the documented order, each with its currency and tag
TextOrder ==
    << [pat |-> [kind |-> "suffix", marker |-> <<"<euro>">>, cur |-> S_EUR],
        cur |-> S_EUR, tag |-> <<"t", "e", "x", "t", ":", "e", "u", "r">>],
       [pat |-> [kind |-> "prefix", marker |-> <<"$">>, cur |-> S_USD],
        cur |-> S_USD, tag |-> <<"t", "e", "x", "t", ":", "u", "s", "d">>],
       [pat |-> [kind |-> "suffix", marker |-> S_CHF, cur |-> S_CHF],
        cur |-> S_CHF, tag |-> <<"t", "e", "x", "t", ":", "c", "h", "f">>],
       [pat |-> [kind |-> "prefix", marker |-> <<"<pound>">>, cur |-> S_GBP],
        cur |-> S_GBP, tag |-> <<"t", "e", "x", "t", ":", "g", "b", "p">>] >>

\* the first 200,000 characters of the visible text
Cut(text) == SubSeq(text, 1, IF Len(text) < MAX_TEXT_LEN THEN Len(text) ELSE MAX_TEXT_LEN)

RECURSIVE MatchNormalisesFrom(_, _, _)
\* one of the successive, non-overlapping matches of the pattern at or after
\* position from normalises
MatchNormalisesFrom(text, pat, from) ==
    IF \E i \in from..Len(text) : MatchEnd(text, i, pat) # 0
    THEN LET i == CHOOSE i \in from..Len(text) :
                      /\ MatchEnd(text, i, pat) # 0
                      /\ \A j \in from..(i - 1) : MatchEnd(text, j, pat) = 0
             e == MatchEnd(text, i, pat)
         IN  \/ ToFloat(SubSeq(text, i, e - 1)) # None
             \/ MatchNormalisesFrom(text, pat, e)
    ELSE FALSE

\* some match of the pattern, anywhere in the text, normalises
SomeMatchNormalises(text, pat) == MatchNormalisesFrom(text, pat, 1)

\* per pattern of TextOrder: its leftmost match normalised, None without match
LeftmostPrices(text) ==
    [n \in 1..4 |->
        LET m == Search(TextOrder[n].pat, text)
        IN  IF m = None THEN None ELSE ToFloat(m.v)]

(* C12 as stated: a text result of the n-th pattern means that no earlier      *)
(* pattern has any normalisable match in the truncated text.                   *)
C12_NoEarlierNormalizableMatch ==
    (Returned /\ HasPrefix(result.source, S_text)) =>
        \A n \in 1..4 :
            result.source = TextOrder[n].tag =>
                \A h \in 1..(n - 1) :
                    ~SomeMatchNormalises(Cut(html.text), TextOrder[h].pat)

TextDecides(prices, r) ==
    IF \E n \in 1..4 : prices[n] # None
    THEN LET n == CHOOSE n \in 1..4 :
                      prices[n] # None /\ \A h \in 1..(n - 1) : prices[h] = None
         IN  r = Triple(prices[n], Str(TextOrder[n].cur), TextOrder[n].tag)
    ELSE r = Triple(None, None, S_not_found)

(* C12 as amended: over the text cut to 200,000 characters, the result of the  *)
(* text strategy is the first pattern, in the order Euro-suffixed,             *)
(* Dollar-prefixed, CHF-suffixed, Pound-prefixed, whose leftmost match         *)
(* normalises, tagged text:eur, text:usd, text:chf or text:gbp with that       *)
(* currency; a pattern whose leftmost match does not normalise is passed over  *)
(* whatever its later matches, and "not-found" is returned when none is left.  *)
(* Stated of every result that does not come from JSON-LD or a meta tag.       *)
C12_FirstLeftmostMatch ==
    (Returned /\ (HasPrefix(result.source, S_text) \/ result.source = S_not_found)) =>
        TextDecides(LeftmostPrices(Cut(html.text)), result)

\* the CHF price has been returned from a text whose leftmost Euro match does
\* not normalise and which has no Dollar match
C12_Witness ==
    /\ Returned
    /\ result.source = TextOrder[3].tag
    /\ result.currency = Str(S_CHF)
    /\ Search(TextOrder[1].pat, Cut(html.text)) # None
    /\ LeftmostPrices(Cut(html.text))[1] = None
    /\ Search(TextOrder[2].pat, Cut(html.text)) = None

====
